---- MODULE Spec2Model ----
(***************************************************************************)
(* A model of the butteraugli perceptual-difference engine of libjxl and   *)
(* of the command-line tool tools/butteraugli_main.cc that drives it.      *)
(*                                                                         *)
(* Spec            the command-line tool: main() and RunButteraugli()      *)
(* SpecEngine      one call at a time of the engine's entry points         *)
(* SpecConcurrent  two threads calling the methods of one comparator       *)
(* SpecPool        the score reducer applied to two difference maps        *)
(* SpecColor       the operations of one ColorEncoding object              *)
(* SpecQuant       the operations of one Quantizer object                  *)
(* SpecExr         one run of DecodeImageEXR                               *)
(***************************************************************************)
EXTENDS Integers, Sequences, FiniteSets, TLC

\* ------------------------------------------------------------------ bounds
\* Longest argument list after argv[0].
MaxArgs == 5
\* Largest width and height of a decoded image.
MaxDim == 2
\* Largest number of pixels of an image handed to the engine.
MaxPix == 4
\* Largest number of cells and largest cell value of a pooled difference map.
MaxCells == 3
MaxDiff == 2
\* Largest number of calls made on one ColorEncoding.
MaxColorCalls == 3
\* Largest coordinate of the windows of an OpenEXR file.
MaxExrCoord == 1

\* --------------------------------------------------------------- variables
VARIABLES
  args,        \* argv[1..argc-1]; args[k] is argv[k], argc = Len(args) + 1
  pc,          \* position of the tool in main() / RunButteraugli()
  i,           \* loop variable of main()'s option loop
  distmap,     \* std::string distmap of main() ("" when empty)
  colorspace,  \* std::string colorspace of main() ("" when empty)
  io1,         \* CodecInOut io1: [ok, xs, ys, hint]
  io2,         \* CodecInOut io2
  out,         \* lines printed to standard output, in order
  err,         \* diagnostics printed to standard error, in order
  files,       \* paths of the files the tool has written
  calls,       \* engine functions invoked so far, in order
  failure,     \* the step that failed ("none" while none has)
  status,      \* "running", "exit0", "exit1" or "abort"
  distmapImg,  \* ImageF distmap of RunButteraugli()
  heatmap,     \* the arguments CreateHeatMapImage was called with
  rgb0,        \* the reference image handed to the engine
  hfa,         \* hf_asymmetry, in tenths
  comparator,  \* <<>> before construction, then <<the ButteraugliComparator>>
  call,        \* the last completed call of an engine entry point
  th,          \* per thread: the comparator method it is executing
  pool,        \* the difference maps handed to the score reducer, and scores
  ce,          \* a ColorEncoding object
  hist,        \* the calls made on the ColorEncoding, in order
  qz,          \* a Quantizer object
  qlast,       \* the last call made on the Quantizer
  bits,        \* the bits written by Quantizer::Encode
  exr          \* one run of DecodeImageEXR: its inputs, position and outputs

renderVars == <<distmapImg, heatmap>>
toolVars == <<args, pc, i, distmap, colorspace, io1, io2, out, err, files,
              calls, failure, status, renderVars>>

engineVars == <<rgb0, hfa, comparator, call, th>>
poolVars == <<pool>>

colorVars == <<ce, hist>>
quantVars == <<qz, qlast, bits>>
exrVars == <<exr>>
codecVars == <<colorVars, quantVars, exrVars>>

vars == <<toolVars, engineVars, poolVars, codecVars>>

\* ------------------------------------------------------ command-line tool
FlagDistmap == "--distmap"
FlagColorspace == "--colorspace"
\* Argument strings: the two option names and two other strings.  An option
\* name is also a legal file name.
Tokens == {FlagDistmap, FlagColorspace, "a", "b"}

RECURSIVE SeqsUpTo(_, _)
SeqsUpTo(S, n) ==
  IF n = 0 THEN {<<>>}
  ELSE LET shorter == SeqsUpTo(S, n - 1)
       IN  shorter \cup {Append(s, t) : s \in {q \in shorter : Len(q) = n - 1}, t \in S}

ArgLists == SeqsUpTo(Tokens, MaxArgs)

argc == Len(args) + 1

SameDims(a, b) == a.xs = b.xs /\ a.ys = b.ys
EmptyIO == [ok |-> FALSE, xs |-> 0, ys |-> 0, hint |-> ""]
Decoded == [ok : {TRUE}, xs : 1..MaxDim, ys : 1..MaxDim, hint : {""}]

\* CodecInOut with dec_hints.Add("color_space", colorspace_hint) applied
\* when the hint is not empty.
WithHint(io, hint) == IF hint # "" THEN [io EXCEPT !.hint = hint] ELSE io

\* One pass through the body of main()'s option loop, started with loop
\* variable j: the two if statements in sequence, then the loop's i++.
OptionLoopBody(j, d, c) ==
  LET hit1 == args[j] = FlagDistmap /\ j + 1 < argc
      j1   == IF hit1 THEN j + 1 ELSE j
      d1   == IF hit1 THEN args[j + 1] ELSE d
      hit2 == args[j1] = FlagColorspace /\ j1 + 1 < argc
      j2   == IF hit2 THEN j1 + 1 ELSE j1
      c1   == IF hit2 THEN args[j1 + 1] ELSE c
  IN  [i |-> j2 + 1, distmap |-> d1, colorspace |-> c1]

\* An ImageF of the tool: its size and the engine call that filled it (0 for
\* a default-constructed, empty image).
EmptyImageF == [xs |-> 0, ys |-> 0, call |-> 0]
DistmapOf(io, k) == [xs |-> io.xs, ys |-> io.ys, call |-> k]
NoHeatmap == [distmap |-> EmptyImageF, good_threshold |-> <<>>,
              bad_threshold |-> <<>>, after |-> <<>>]

\* double ButteraugliFuzzyInverse(double seek): declared in butteraugli.h,
\* kept as the application of the function to seek (in tenths).
ButteraugliFuzzyInverse(seek) == <<"ButteraugliFuzzyInverse", seek>>

\* JXL_CHECK(condition): the process continues when the condition holds
\* and is aborted (after a diagnostic on standard error) when it does not.
JXL_CHECK(condition, next) == IF condition THEN next ELSE "abort"


\* ------------------------------------------------- perceptual engine: data
\* A planar image: width, height and one sample per pixel, pixel (x, y) at
\* index px = y * xsize + x.  One opsin channel is modelled.
Samples == {0, 4}
ImagesOfSize(w, h) == [xs : {w}, ys : {h}, px : [0..(w * h - 1) -> Samples]]
Sizes == {wh \in (1..MaxPix) \X (1..MaxPix) : wh[1] * wh[2] <= MaxPix}
Images == UNION {ImagesOfSize(wh[1], wh[2]) : wh \in Sizes}

SameSize(a, b) == a.xs = b.xs /\ a.ys = b.ys
Pixels(img) == 0..(img.xs * img.ys - 1)
At(img, f, x, y) ==
  LET cx == IF x < 0 THEN 0 ELSE IF x >= img.xs THEN img.xs - 1 ELSE x
      cy == IF y < 0 THEN 0 ELSE IF y >= img.ys THEN img.ys - 1 ELSE y
  IN  f[cy * img.xs + cx]
Abs(v) == IF v < 0 THEN -v ELSE v
Min(a, b) == IF a < b THEN a ELSE b
\* Integer division rounding toward minus infinity is \div; samples that may
\* be negative are divided symmetrically around zero.
SDiv(a, b) == IF a < 0 THEN -((-a) \div b) ELSE a \div b

\* A function given by a rule, evaluated at every point of its domain.
Force(f) == f @@ <<>>

ZeroMap(img) == [p \in Pixels(img) |-> 0]

\* ---------------------------------------- perceptual engine: the pipeline
\* The conversion into the opsin space: a compressive (square-root-like)
\* response to linear intensity.
RECURSIVE ISqrt(_)
ISqrt(v) == IF v <= 0 THEN 0
            ELSE LET r == 2 * ISqrt(v \div 4)
                 IN  IF (r + 1) * (r + 1) <= v THEN r + 1 ELSE r
OpsinDynamicsImage(rgb) ==
  [rgb EXCEPT !.px = Force([p \in Pixels(rgb) |-> 4 * ISqrt(rgb.px[p])])]

\* A separable, even-symmetric [1 2 1] / 4 low-pass filter with the border
\* samples repeated: one horizontal and one vertical pass.
BlurH(img, f) ==
  Force([p \in Pixels(img) |->
     LET x == p % img.xs
         y == p \div img.xs
     IN  SDiv(At(img, f, x - 1, y) + 2 * f[p] + At(img, f, x + 1, y), 4)])
BlurV(img, f) ==
  Force([p \in Pixels(img) |->
     LET x == p % img.xs
         y == p \div img.xs
     IN  SDiv(At(img, f, x, y - 1) + 2 * f[p] + At(img, f, x, y + 1), 4)])
Blur(img, f) == BlurV(img, BlurH(img, f))

\* Frequency Pyramid Builder: the four sub-bands of one opsin image.
SeparateFrequencies(xyb) ==
  LET b1 == Blur(xyb, xyb.px)
      b2 == Blur(xyb, b1)
      b3 == Blur(xyb, b2)
  IN  [xs  |-> xyb.xs, ys |-> xyb.ys,
       uhf |-> Force([p \in Pixels(xyb) |-> xyb.px[p] - b1[p]]),
       hf  |-> Force([p \in Pixels(xyb) |-> b1[p] - b2[p]]),
       mf  |-> Force([p \in Pixels(xyb) |-> b2[p] - b3[p]]),
       lf  |-> b3]

\* Visual Masking Model: thresholds from the image's own local contrast,
\* through a saturating response; never zero, never unbounded.
MaskCap == 8
MaskOf(pi) ==
  LET contrast == Blur(pi, Force([p \in Pixels(pi) |-> Abs(pi.uhf[p]) + Abs(pi.hf[p])]))
  IN  [mask_x  |-> Force([p \in Pixels(pi) |-> 1 + Min(contrast[p], MaskCap)]),
       mask_yb |-> Force([p \in Pixels(pi) |-> 1 + Min(contrast[p] \div 2, MaskCap)])]

\* Band Difference Combiner.  The per-band error is a saturating function
\* of the signed difference of the band samples.
ErrorCap == 64
BandError_Floor(d) == Min(d * d + 1, ErrorCap)
BandError(d) == Min(d * d, ErrorCap)

\* hf_asymmetry is kept in tenths (10 is the neutral 1.0): error that adds
\* high-frequency content is multiplied by it, error that removes content
\* is divided by it.
Asymmetric(e, b0, b1, asym) ==
  IF Abs(b1) > Abs(b0) THEN (e * asym) \div 10 ELSE (e * 10) \div asym

CombineBands(pi0, pi1, mask, asym) ==
  Force([p \in Pixels(pi0) |->
     LET high == Asymmetric(BandError(pi0.uhf[p] - pi1.uhf[p]),
                            pi0.uhf[p], pi1.uhf[p], asym)
                 + Asymmetric(BandError(pi0.hf[p] - pi1.hf[p]),
                              pi0.hf[p], pi1.hf[p], asym)
         low  == BandError(pi0.mf[p] - pi1.mf[p])
                 + BandError(pi0.lf[p] - pi1.lf[p])
     IN  high \div mask.mask_x[p] + low \div mask.mask_yb[p]])

\* Score Reducer: the order-p norm (sum of v^p)^(1/p), rounded down.
RECURSIVE Power(_, _)
Power(v, p) == IF p = 0 THEN 1 ELSE v * Power(v, p - 1)
RECURSIVE SumPowers(_, _, _)
SumPowers(d, n, p) ==
  IF n = 0 THEN 0 ELSE Power(d[n - 1], p) + SumPowers(d, n - 1, p)
RECURSIVE RootFrom(_, _, _)
RootFrom(r, v, p) == IF Power(r + 1, p) > v THEN r ELSE RootFrom(r + 1, v, p)
IRoot(v, p) == RootFrom(0, v, p)
Cells(d) == Cardinality(DOMAIN d)
\* The mean of the powers of the cells that are not zero, instead of the sum
\* over all cells.
PNorm_MeanOfNonzero(d, p) ==
  LET nonzero == Cardinality({c \in DOMAIN d : d[c] # 0})
  IN  IF nonzero = 0 THEN 0
      ELSE IRoot(SumPowers(d, Cells(d), p) \div nonzero, p)
PNorm(d, p) == IRoot(SumPowers(d, Cells(d), p), p)
kPNorm == 3
ButteraugliScoreFromDiffmap(d) == PNorm(d, kPNorm)

\* ------------------------------------------- perceptual engine: Comparator
\* 2x subsampling: each output pixel is the mean of the block it covers.
SubSample2x(img) ==
  LET w == (img.xs + 1) \div 2
      h == (img.ys + 1) \div 2
  IN  [xs |-> w, ys |-> h,
       px |-> Force([p \in 0..(w * h - 1) |->
                 LET x == 2 * (p % w)
                     y == 2 * (p \div w)
                 IN  (At(img, img.px, x, y) + At(img, img.px, x + 1, y)
                      + At(img, img.px, x, y + 1)
                      + At(img, img.px, x + 1, y + 1)) \div 4])]

\* ButteraugliComparator(rgb0, hf_asymmetry): the members of the class.
\* sub_ is <<>> for a null pointer and <<c>> when it points to c, the
\* comparator of the subsampled reference.
RECURSIVE NewComparator(_, _)
NewComparator(ref, asym) ==
  [xsize_ |-> ref.xs,
   ysize_ |-> ref.ys,
   hf_asymmetry_ |-> asym,
   pi0_ |-> SeparateFrequencies(OpsinDynamicsImage(ref)),
   sub_ |-> IF ref.xs * ref.ys > 1
            THEN <<NewComparator(SubSample2x(ref), asym)>>
            ELSE <<>>]

\* The members of a comparator after one of its methods ran with the
\* distorted pyramid ps1: Diffmap, DiffmapOpsinDynamicsImage,
\* DiffmapPsychoImage and Mask are all declared const, and no member is
\* mutable.
ComparatorAfterCall_Scratch(c, ps1) == [c EXCEPT !.pi0_ = ps1]
ComparatorAfterCall(c, ps1) == c

DiffmapPsychoImage(c, ps1) ==
  CombineBands(c.pi0_, ps1, MaskOf(c.pi0_), c.hf_asymmetry_)
DiffmapOpsinDynamicsImage(c, xyb1) ==
  DiffmapPsychoImage(c, SeparateFrequencies(xyb1))
\* The result of the sub-comparator is added, supersampled, at half weight.
AddSupersampled2x(sub, subxs, img, base) ==
  Force([p \in Pixels(img) |->
     base[p] + sub[((p \div img.xs) \div 2) * subxs + (p % img.xs) \div 2] \div 2])
RECURSIVE Diffmap(_, _)
AddSubComparator(c, rgb1, base) ==
  IF c.sub_ = <<>> THEN base
  ELSE AddSupersampled2x(Diffmap(c.sub_[1], SubSample2x(rgb1)),
                         c.sub_[1].xsize_, rgb1, base)
Diffmap(c, rgb1) ==
  AddSubComparator(c, rgb1,
                   DiffmapOpsinDynamicsImage(c, OpsinDynamicsImage(rgb1)))
\* Mask with grids that hold the first row of the image only.
Mask_FirstRow(c) ==
  LET m == MaskOf(c.pi0_)
      r == [mask_x  |-> Force([p \in 0..(c.xsize_ - 1) |-> m.mask_x[p]]),
            mask_yb |-> Force([p \in 0..(c.xsize_ - 1) |-> m.mask_yb[p]])]
  IN  [mask |-> r, mask_dc |-> r]

\* Mask(mask, mask_dc): both outputs derive from the reference pyramid.
Mask(c) ==
  [mask    |-> MaskOf(c.pi0_),
   mask_dc |-> MaskOf([c.pi0_ EXCEPT !.uhf = c.pi0_.mf, !.hf = c.pi0_.lf])]

\* The size check of the comparator's methods.  They return void, so the
\* only check they can make is an assertion, and BUTTERAUGLI_ENABLE_CHECKS
\* switches the engine's assertions off.
BUTTERAUGLI_ENABLE_CHECKS == 0
ComparatorCheckPasses(c, xs, ys) ==
  BUTTERAUGLI_ENABLE_CHECKS = 0 \/ (xs = c.xsize_ /\ ys = c.ysize_)

\* ButteraugliDiffmap and ButteraugliInterface return false for an empty
\* reference and for images of different size.
EntryCheckPasses(ref, rgb1) ==
  ref.xs >= 1 /\ ref.ys >= 1 /\ SameSize(ref, rgb1)

\* ------------------------------------------------ states of the idle parts
Threads == {1, 2}
EmptyMap == [p \in {} |-> 0]
EmptyImage == [xs |-> 0, ys |-> 0, px |-> EmptyMap]
EmptyPsycho == [xs |-> 0, ys |-> 0, uhf |-> EmptyMap, hf |-> EmptyMap,
                mf |-> EmptyMap, lf |-> EmptyMap]
NoValue == -1
NoCall == [entry |-> "none", rgb1 |-> EmptyImage, ret |-> "none",
           computed |-> FALSE, diffmap |-> EmptyMap, diffvalue |-> NoValue]
IdleThread == [pc |-> "idle", entry |-> "none", rgb1 |-> EmptyImage,
               ps1 |-> EmptyPsycho, result |-> EmptyMap]
NoPool == [a |-> EmptyMap, b |-> EmptyMap, scoreA |-> NoValue,
           scoreB |-> NoValue]
EngineOff ==
  /\ rgb0 = EmptyImage
  /\ hfa = 10
  /\ comparator = <<>>
  /\ call = NoCall
  /\ th = [t \in Threads |-> IdleThread]
PoolOff == pool = NoPool
NoEncoding == [color_space_ |-> "none"]
NoQuantizer == [global_scale_ |-> 0, quant_dc_ |-> 0,
                inv_global_scale_ |-> <<>>, inv_quant_dc_ |-> <<>>]
NoQuantCall == [op |-> "none", ret |-> "none", before |-> NoQuantizer,
                quant_dc |-> 0, raw |-> 0, input |-> <<>>]
NoBits == [data |-> <<>>, global_scale_ |-> 0, quant_dc_ |-> 0]
ColorOff == ce = NoEncoding /\ hist = <<>>
QuantOff == qz = NoQuantizer /\ qlast = NoQuantCall /\ bits = NoBits
NoExr == [pc |-> "off"]
ExrOff == exr = NoExr
CodecOff == ColorOff /\ QuantOff /\ ExrOff
ToolOff ==
  /\ args = <<>>
  /\ pc = "off"
  /\ i = 0
  /\ distmap = ""
  /\ colorspace = ""
  /\ io1 = EmptyIO
  /\ io2 = EmptyIO
  /\ out = <<>>
  /\ err = <<>>
  /\ files = {}
  /\ calls = <<>>
  /\ failure = "none"
  /\ status = "running"
  /\ distmapImg = EmptyImageF
  /\ heatmap = NoHeatmap

\* ------------------------------------------- command-line tool: the run
InitTool ==
  /\ args \in ArgLists
  /\ pc = "main"
  /\ i = 0
  /\ distmap = ""
  /\ colorspace = ""
  /\ io1 = EmptyIO
  /\ io2 = EmptyIO
  /\ out = <<>>
  /\ err = <<>>
  /\ files = {}
  /\ calls = <<>>
  /\ failure = "none"
  /\ status = "running"
  /\ distmapImg = EmptyImageF
  /\ heatmap = NoHeatmap
  /\ EngineOff
  /\ PoolOff
  /\ CodecOff

\* main(): argc < 3 prints the usage text and returns 1.
MainUsage ==
  /\ pc = "main" /\ argc < 3
  /\ err' = Append(err, <<"Usage", "">>)
  /\ failure' = "usage"
  /\ status' = "exit1"
  /\ pc' = "exited"
  /\ UNCHANGED <<args, i, distmap, colorspace, io1, io2, out, files, calls>>
  /\ UNCHANGED <<renderVars, engineVars, poolVars, codecVars>>

\* main(): the two strings are empty and the loop starts at i = 2.
MainStart ==
  /\ pc = "main" /\ argc >= 3
  /\ i' = 2
  /\ pc' = "options"
  /\ UNCHANGED <<args, distmap, colorspace, io1, io2, out, err, files, calls,
                 failure, status>>
  /\ UNCHANGED <<renderVars, engineVars, poolVars, codecVars>>

MainOptionLoop ==
  /\ pc = "options" /\ i < argc
  /\ LET r == OptionLoopBody(i, distmap, colorspace)
     IN  /\ i' = r.i
         /\ distmap' = r.distmap
         /\ colorspace' = r.colorspace
  /\ UNCHANGED <<args, pc, io1, io2, out, err, files, calls, failure, status>>
  /\ UNCHANGED <<renderVars, engineVars, poolVars, codecVars>>

\* main() calls RunButteraugli(argv[1], argv[2], distmap, colorspace).
MainCallRun ==
  /\ pc = "options" /\ i >= argc
  /\ pc' = "read1"
  /\ UNCHANGED <<args, i, distmap, colorspace, io1, io2, out, err, files,
                 calls, failure, status>>
  /\ UNCHANGED <<renderVars, engineVars, poolVars, codecVars>>

\* RunButteraugli: SetFromFile(pathname1, &io1, &pool) succeeds with some
\* image or fails.
ReadFirst ==
  /\ pc = "read1"
  /\ \/ /\ \E img \in Decoded : io1' = WithHint(img, colorspace)
        /\ pc' = "read2"
        /\ UNCHANGED <<err, failure, status>>
     \/ /\ io1' = WithHint(EmptyIO, colorspace)
        /\ err' = Append(err, <<"Failed to read image from", args[1]>>)
        /\ failure' = "read1"
        /\ status' = "exit1"
        /\ pc' = "exited"
  /\ UNCHANGED <<args, i, distmap, colorspace, io2, out, files, calls>>
  /\ UNCHANGED <<renderVars, engineVars, poolVars, codecVars>>

\* RunButteraugli: SetFromFile(pathname2, &io2, &pool).  The same path names
\* the same file, which decodes to the same image.
ReadSecond ==
  /\ pc = "read2"
  /\ \/ /\ \E img \in Decoded :
             /\ args[2] = args[1] => (img.xs = io1.xs /\ img.ys = io1.ys)
             /\ io2' = WithHint(img, colorspace)
        /\ pc' = "width"
        /\ UNCHANGED <<err, failure, status>>
     \/ /\ args[2] # args[1]
        /\ io2' = WithHint(EmptyIO, colorspace)
        /\ err' = Append(err, <<"Failed to read image from", args[2]>>)
        /\ failure' = "read2"
        /\ status' = "exit1"
        /\ pc' = "exited"
  /\ UNCHANGED <<args, i, distmap, colorspace, io1, out, files, calls>>
  /\ UNCHANGED <<renderVars, engineVars, poolVars, codecVars>>

CheckWidth ==
  /\ pc = "width"
  /\ IF io1.xs # io2.xs
     THEN /\ err' = Append(err, <<"Width mismatch", "">>)
          /\ failure' = "width"
          /\ status' = "exit1"
          /\ pc' = "exited"
     ELSE /\ pc' = "height"
          /\ UNCHANGED <<err, failure, status>>
  /\ UNCHANGED <<args, i, distmap, colorspace, io1, io2, out, files, calls>>
  /\ UNCHANGED <<renderVars, engineVars, poolVars, codecVars>>

\* CheckHeight with the comparison of the heights left out.
CheckHeight_NoCompare ==
  /\ pc = "height"
  /\ pc' = "distance"
  /\ UNCHANGED <<args, i, distmap, colorspace, io1, io2, out, err, files,
                 calls, failure, status>>
  /\ UNCHANGED <<renderVars, engineVars, poolVars, codecVars>>

CheckHeight ==
  /\ pc = "height"
  /\ IF io1.ys # io2.ys
     THEN /\ err' = Append(err, <<"Height mismatch", "">>)
          /\ failure' = "height"
          /\ status' = "exit1"
          /\ pc' = "exited"
     ELSE /\ pc' = "distance"
          /\ UNCHANGED <<err, failure, status>>
  /\ UNCHANGED <<args, i, distmap, colorspace, io1, io2, out, files, calls>>
  /\ UNCHANGED <<renderVars, engineVars, poolVars, codecVars>>

\* ButteraugliDistance(io1.Main(), io2.Main(), kHfAsymmetry, &distmap,
\* &pool) fills distmap and returns the score, then printf("%.10f\n",
\* distance).
ComputeDistance ==
  /\ pc = "distance"
  /\ calls' = Append(calls, "ButteraugliDistance")
  /\ distmapImg' = DistmapOf(io1, Len(calls) + 1)
  /\ out' = Append(out, "distance")
  /\ pc' = "pnorm"
  /\ UNCHANGED <<args, i, distmap, colorspace, io1, io2, err, files, failure,
                 status, heatmap>>
  /\ UNCHANGED <<engineVars, poolVars, codecVars>>

\* ChooseComputeDistanceP()(distmap, p), then printf("%g-norm: %f\n", ...).
ComputePNorm ==
  /\ pc = "pnorm"
  /\ calls' = Append(calls, "ComputeDistanceP")
  /\ out' = Append(out, "pnorm")
  /\ pc' = "heatmap"
  /\ UNCHANGED <<args, i, distmap, colorspace, io1, io2, err, files, failure,
                 status>>
  /\ UNCHANGED <<renderVars, engineVars, poolVars, codecVars>>

\* const double good = ButteraugliFuzzyInverse(1.5), bad =
\* ButteraugliFuzzyInverse(0.5); CreateHeatMapImage(distmap, good, bad).
\* The standard output at the time of the call is kept with the arguments.
RenderHeatmap(map) ==
  [distmap |-> map, good_threshold |-> ButteraugliFuzzyInverse(15),
   bad_threshold |-> ButteraugliFuzzyInverse(5), after |-> out]

\* The heatmap is rendered and written when distmap_filename is not empty;
\* WritePNG's result goes through JXL_CHECK.  RunButteraugli then returns
\* true and main() returns 0.
WriteHeatmap ==
  /\ pc = "heatmap"
  /\ IF distmap = ""
     THEN /\ status' = "exit0"
          /\ UNCHANGED <<calls, files, err, failure, heatmap>>
     ELSE /\ calls' = calls \o <<"CreateHeatMapImage", "WritePNG">>
          /\ heatmap' = RenderHeatmap(distmapImg)
          /\ \E written \in BOOLEAN :
               /\ files' = IF written THEN files \cup {distmap} ELSE files
               /\ status' = JXL_CHECK(written, "exit0")
               /\ failure' = IF written THEN failure ELSE "heatmap"
               /\ err' = IF written THEN err
                         ELSE Append(err, <<"JXL_CHECK", "WritePNG">>)
  /\ pc' = "exited"
  /\ UNCHANGED <<args, i, distmap, colorspace, io1, io2, out, distmapImg>>
  /\ UNCHANGED <<engineVars, poolVars, codecVars>>

NextTool ==
  \/ MainUsage
  \/ MainStart
  \/ MainOptionLoop
  \/ MainCallRun
  \/ ReadFirst
  \/ ReadSecond
  \/ CheckWidth
  \/ CheckHeight
  \/ ComputeDistance
  \/ ComputePNorm
  \/ WriteHeatmap

Init == InitTool
Next == NextTool
Spec == Init /\ [][Next]_vars

\* -------------------------------------- perceptual engine: the entry points
\* kHfAsymmetry = 0.8 of the tool, in tenths, and the neutral 1.0.
kHfAsymmetry == 8
Asymmetries == {kHfAsymmetry, 10}

\* The distorted inputs tried against a reference: the reference itself,
\* the reference with one pixel changed, and a dark image of every other
\* size.
Toggled(img, q) ==
  [img EXCEPT !.px = Force([p \in Pixels(img) |->
                             IF p = q THEN 4 - img.px[p] ELSE img.px[p]])]
Distortions(ref) ==
  {ref} \cup {Toggled(ref, q) : q \in Pixels(ref)}
        \cup {[xs |-> wh[1], ys |-> wh[2],
               px |-> Force([p \in 0..(wh[1] * wh[2] - 1) |-> 0])] :
              wh \in {s \in Sizes : s # <<ref.xs, ref.ys>>}}

\* What an unchecked call computes from an input of another size is not
\* defined: it ends in a crash or returns a map of arbitrary values.
GarbageMaps(img) == {ZeroMap(img), [p \in Pixels(img) |-> 1]}

\* bool ButteraugliDiffmap(rgb0, rgb1, hf_asymmetry, diffmap)
ButteraugliDiffmap(ref, rgb1, asym) ==
  IF ~EntryCheckPasses(ref, rgb1)
  THEN [entry |-> "ButteraugliDiffmap", rgb1 |-> rgb1, ret |-> "false",
        computed |-> FALSE, diffmap |-> EmptyMap, diffvalue |-> NoValue]
  ELSE [entry |-> "ButteraugliDiffmap", rgb1 |-> rgb1, ret |-> "true",
        computed |-> TRUE, diffmap |-> Diffmap(NewComparator(ref, asym), rgb1),
        diffvalue |-> NoValue]

\* bool ButteraugliInterface(rgb0, rgb1, hf_asymmetry, diffmap, diffvalue)
ButteraugliInterface(ref, rgb1, asym) ==
  LET r == ButteraugliDiffmap(ref, rgb1, asym)
  IN  [r EXCEPT !.entry = "ButteraugliInterface",
                !.diffvalue = IF r.ret = "true"
                              THEN ButteraugliScoreFromDiffmap(r.diffmap)
                              ELSE NoValue]

\* The outcomes of a void method of the comparator, called with an input
\* derived from rgb1; `value` is what it computes from an input of the
\* reference's size.
MethodOutcomes(name, c, rgb1, value) ==
  IF ~ComparatorCheckPasses(c, rgb1.xs, rgb1.ys)
  THEN {[entry |-> name, rgb1 |-> rgb1, ret |-> "aborted",
         computed |-> FALSE, diffmap |-> EmptyMap, diffvalue |-> NoValue]}
  ELSE IF rgb1.xs = c.xsize_ /\ rgb1.ys = c.ysize_
  THEN {[entry |-> name, rgb1 |-> rgb1, ret |-> "returned",
         computed |-> TRUE, diffmap |-> value, diffvalue |-> NoValue]}
  ELSE {[entry |-> name, rgb1 |-> rgb1, ret |-> "crashed",
         computed |-> TRUE, diffmap |-> EmptyMap, diffvalue |-> NoValue]}
       \cup {[entry |-> name, rgb1 |-> rgb1, ret |-> "returned",
              computed |-> TRUE, diffmap |-> g, diffvalue |-> NoValue] :
             g \in GarbageMaps([xs |-> c.xsize_, ys |-> c.ysize_])}

InitEngine ==
  /\ ToolOff
  /\ PoolOff
  /\ CodecOff
  /\ rgb0 \in Images
  /\ hfa \in Asymmetries
  /\ comparator = <<>>
  /\ call = NoCall
  /\ th = [t \in Threads |-> IdleThread]

Construct ==
  /\ rgb0 # EmptyImage
  /\ comparator = <<>>
  /\ comparator' = <<NewComparator(rgb0, hfa)>>
  /\ UNCHANGED <<rgb0, hfa, call, th>>
  /\ UNCHANGED <<toolVars, poolVars, codecVars>>

CallButteraugliInterface ==
  /\ rgb0 # EmptyImage
  /\ call = NoCall
  /\ \E rgb1 \in Distortions(rgb0) : call' = ButteraugliInterface(rgb0, rgb1, hfa)
  /\ UNCHANGED <<rgb0, hfa, comparator, th>>
  /\ UNCHANGED <<toolVars, poolVars, codecVars>>

CallButteraugliDiffmap ==
  /\ rgb0 # EmptyImage
  /\ call = NoCall
  /\ \E rgb1 \in Distortions(rgb0) : call' = ButteraugliDiffmap(rgb0, rgb1, hfa)
  /\ UNCHANGED <<rgb0, hfa, comparator, th>>
  /\ UNCHANGED <<toolVars, poolVars, codecVars>>

CallDiffmap ==
  /\ comparator # <<>>
  /\ call = NoCall
  /\ \E rgb1 \in Distortions(rgb0) :
       call' \in MethodOutcomes("Diffmap", comparator[1], rgb1,
                                Diffmap(comparator[1], rgb1))
  /\ UNCHANGED <<rgb0, hfa, comparator, th>>
  /\ UNCHANGED <<toolVars, poolVars, codecVars>>

CallDiffmapOpsinDynamicsImage ==
  /\ comparator # <<>>
  /\ call = NoCall
  /\ \E rgb1 \in Distortions(rgb0) :
       call' \in MethodOutcomes("DiffmapOpsinDynamicsImage", comparator[1], rgb1,
               DiffmapOpsinDynamicsImage(comparator[1], OpsinDynamicsImage(rgb1)))
  /\ UNCHANGED <<rgb0, hfa, comparator, th>>
  /\ UNCHANGED <<toolVars, poolVars, codecVars>>

CallDiffmapPsychoImage ==
  /\ comparator # <<>>
  /\ call = NoCall
  /\ \E rgb1 \in Distortions(rgb0) :
       call' \in MethodOutcomes("DiffmapPsychoImage", comparator[1], rgb1,
               DiffmapPsychoImage(comparator[1],
                   SeparateFrequencies(OpsinDynamicsImage(rgb1))))
  /\ UNCHANGED <<rgb0, hfa, comparator, th>>
  /\ UNCHANGED <<toolVars, poolVars, codecVars>>

\* The caller takes the result; the next call can be made.
TakeResult ==
  /\ call # NoCall
  /\ call' = NoCall
  /\ UNCHANGED <<rgb0, hfa, comparator, th>>
  /\ UNCHANGED <<toolVars, poolVars, codecVars>>

NextEngine ==
  \/ Construct
  \/ CallButteraugliInterface
  \/ CallButteraugliDiffmap
  \/ CallDiffmap
  \/ CallDiffmapOpsinDynamicsImage
  \/ CallDiffmapPsychoImage
  \/ TakeResult

SpecEngine == InitEngine /\ [][NextEngine]_vars

\* ------------------------------- perceptual engine: concurrent comparisons
\* Several threads call the methods of one constructed comparator.  A call
\* builds the pyramid of its own input, then combines it with the members
\* of the comparator, then returns.
Methods == {"Diffmap", "DiffmapOpsinDynamicsImage", "DiffmapPsychoImage", "Mask"}
ThreadInputs(ref) == {ref, Toggled(ref, 0)}

\* What a method computes from the members c and the pyramid ps1 of its
\* input; only Diffmap adds the sub-comparator's map.
MethodResult(entry, c, rgb1, ps1) ==
  IF entry = "Mask" THEN Mask(c)
  ELSE IF entry = "Diffmap"
  THEN AddSubComparator(c, rgb1, DiffmapPsychoImage(c, ps1))
  ELSE DiffmapPsychoImage(c, ps1)

InitConcurrent ==
  /\ ToolOff
  /\ PoolOff
  /\ CodecOff
  /\ rgb0 \in Images
  /\ hfa = kHfAsymmetry
  /\ comparator = <<NewComparator(rgb0, hfa)>>
  /\ call = NoCall
  /\ th = [t \in Threads |-> IdleThread]

ThreadCall(t) ==
  /\ th[t].pc = "idle"
  /\ \E m \in Methods, rgb1 \in ThreadInputs(rgb0) :
       /\ m = "Mask" => rgb1 = rgb0
       /\ th' = [th EXCEPT ![t] = [IdleThread EXCEPT !.pc = "called",
                                                       !.entry = m,
                                                       !.rgb1 = rgb1]]
  /\ UNCHANGED <<rgb0, hfa, comparator, call>>
  /\ UNCHANGED <<toolVars, poolVars, codecVars>>

ThreadBuild(t) ==
  /\ th[t].pc = "called"
  /\ th[t].entry # "Mask"
  /\ LET ps1 == SeparateFrequencies(OpsinDynamicsImage(th[t].rgb1))
     IN  /\ th' = [th EXCEPT ![t].pc = "built", ![t].ps1 = ps1]
         /\ comparator' = <<ComparatorAfterCall(comparator[1], ps1)>>
  /\ UNCHANGED <<rgb0, hfa, call>>
  /\ UNCHANGED <<toolVars, poolVars, codecVars>>

ThreadCombine(t) ==
  /\ \/ th[t].pc = "built"
     \/ th[t].pc = "called" /\ th[t].entry = "Mask"
  /\ th' = [th EXCEPT ![t].pc = "done",
                      ![t].result = MethodResult(th[t].entry, comparator[1],
                                                 th[t].rgb1, th[t].ps1)]
  /\ UNCHANGED <<rgb0, hfa, comparator, call>>
  /\ UNCHANGED <<toolVars, poolVars, codecVars>>

ThreadReturn(t) ==
  /\ th[t].pc = "done"
  /\ th' = [th EXCEPT ![t] = IdleThread]
  /\ UNCHANGED <<rgb0, hfa, comparator, call>>
  /\ UNCHANGED <<toolVars, poolVars, codecVars>>

NextConcurrent ==
  \/ \E t \in Threads : ThreadCall(t)
  \/ \E t \in Threads : ThreadBuild(t)
  \/ \E t \in Threads : ThreadCombine(t)
  \/ \E t \in Threads : ThreadReturn(t)

SpecConcurrent == InitConcurrent /\ [][NextConcurrent]_vars

\* ------------------------------------------------ score reducer: pooling
DiffMaps(n) == [0..(n - 1) -> 0..MaxDiff]

InitPool ==
  /\ ToolOff
  /\ EngineOff
  /\ CodecOff
  /\ \E n \in 1..MaxCells :
       pool \in [a : DiffMaps(n), b : DiffMaps(n),
                 scoreA : {NoValue}, scoreB : {NoValue}]

\* The tool's pooling of a difference map: ChooseComputeDistanceP()(map, p)
\* with p = 3.
PoolFirst ==
  /\ pool # NoPool
  /\ pool.scoreA = NoValue
  /\ pool' = [pool EXCEPT !.scoreA = PNorm(pool.a, kPNorm)]
  /\ UNCHANGED <<toolVars, engineVars, codecVars>>

PoolSecond ==
  /\ pool # NoPool
  /\ pool.scoreB = NoValue
  /\ pool' = [pool EXCEPT !.scoreB = PNorm(pool.b, kPNorm)]
  /\ UNCHANGED <<toolVars, engineVars, codecVars>>

NextPool ==
  \/ PoolFirst
  \/ PoolSecond

SpecPool == InitPool /\ [][NextPool]_vars

\* ---------------------------------------------------------- ColorEncoding
ColorSpaces == {"kRGB", "kGray", "kXYB", "kUnknown"}

\* PaddedBytes: a sequence, empty or not.  ICCInputs are the profiles a
\* caller hands to SetICC; CreatedICC is the profile CreateICC builds from
\* the fields.
ICCInputs == {<<>>, <<"profile">>}
CreatedICC(c) == <<"created", c.color_space_>>

\* ColorEncoding(): the fields after construction (all_default); icc_ is
\* empty and tf.nonserialized_color_space has its member initializer kRGB.
NewColorEncoding ==
  [color_space_ |-> "kRGB", white_point |-> "kD65", primaries |-> "kSRGB",
   tf |-> [nonserialized_color_space |-> "kRGB", have_gamma_ |-> FALSE,
           transfer_function_ |-> "kSRGB"],
   rendering_intent |-> "kRelative", want_icc_ |-> FALSE, icc_ |-> <<>>]

ICC(c) == c.icc_
WantICC(c) == c.want_icc_
InternalRemoveICC(c) == [c EXCEPT !.icc_ = <<>>]

\* CustomTransferFunction::SetTransferFunction
SetTransferFunction(tf, f) ==
  [tf EXCEPT !.have_gamma_ = FALSE, !.transfer_function_ = f]

\* CreateICC(): true when a profile was created from the fields.  What a
\* failed call leaves in icc_ is not fixed by the header: it is empty or
\* what it was.
CreateOutcomes == {"created", "cleared", "kept"}
CreateICC(c, outcome) ==
  CASE outcome = "created" -> [c |-> [c EXCEPT !.icc_ = CreatedICC(c)], ret |-> "true"]
    [] outcome = "cleared" -> [c |-> InternalRemoveICC(c), ret |-> "false"]
    [] OTHER               -> [c |-> c, ret |-> "false"]

\* SetFieldsFromICC(): true when all fields were initialized from icc_
\* (the color space possibly to kUnknown), false when decoding fails.
DecodedSpaces == {"kRGB", "kUnknown"}
SetFieldsFromICC(c, decoded, cs) ==
  IF decoded
  THEN [c |-> [c EXCEPT !.color_space_ = cs, !.tf.nonserialized_color_space = cs,
                        !.tf.have_gamma_ = FALSE,
                        !.tf.transfer_function_ = "kUnknown"],
        ret |-> "true"]
  ELSE [c |-> c, ret |-> "false"]

\* SetICC without the assignment icc_ = std::move(icc).
SetICC_NoStore(c, icc, decoded, cs) ==
  IF icc = <<>> THEN [c |-> c, ret |-> "false"]
  ELSE LET r == SetFieldsFromICC(c, decoded, cs)
       IN  IF r.ret # "true"
           THEN [c |-> InternalRemoveICC(r.c), ret |-> "false"]
           ELSE [c |-> [r.c EXCEPT !.want_icc_ = TRUE], ret |-> "true"]

SetICC(c, icc, decoded, cs) ==
  IF icc = <<>> THEN [c |-> c, ret |-> "false"]
  ELSE LET r == SetFieldsFromICC([c EXCEPT !.icc_ = icc], decoded, cs)
       IN  IF r.ret # "true"
           THEN [c |-> InternalRemoveICC(r.c), ret |-> "false"]
           ELSE [c |-> [r.c EXCEPT !.want_icc_ = TRUE], ret |-> "true"]

\* DecideIfWantICC(): WantICC() becomes false if ICC() can be reconstructed
\* from the fields.
DecideIfWantICC(c, reconstructible) ==
  IF reconstructible THEN [c EXCEPT !.want_icc_ = FALSE] ELSE c

\* SetSRGB that also resets want_icc_.
SetSRGB_ClearsWant(c, cs, ri, outcome) ==
  LET removed == InternalRemoveICC(c)
  IN  IF cs \notin {"kGray", "kRGB"}
      THEN [c |-> removed, ret |-> JXL_CHECK(FALSE, "true")]
      ELSE CreateICC([removed EXCEPT
                        !.color_space_ = cs,
                        !.white_point = "kD65",
                        !.primaries = "kSRGB",
                        !.tf = SetTransferFunction(removed.tf, "kSRGB"),
                        !.rendering_intent = ri,
                        !.want_icc_ = FALSE], outcome)

\* SetSRGB(cs, ri): JXL_ASSERT(cs == kGray || cs == kRGB) ends the process
\* for another color space, after the profile was removed.
SetSRGB(c, cs, ri, outcome) ==
  LET removed == InternalRemoveICC(c)
  IN  IF cs \notin {"kGray", "kRGB"}
      THEN [c |-> removed, ret |-> JXL_CHECK(FALSE, "true")]
      ELSE CreateICC([removed EXCEPT
                        !.color_space_ = cs,
                        !.white_point = "kD65",
                        !.primaries = "kSRGB",
                        !.tf = SetTransferFunction(removed.tf, "kSRGB"),
                        !.rendering_intent = ri], outcome)

GetColorSpace(c) == c.color_space_
SetColorSpace(c, cs) ==
  [c EXCEPT !.color_space_ = cs, !.tf.nonserialized_color_space = cs]

\* One entry of the call history: the operation, what it returned, and for
\* SetICC whether the profile given was empty and whether it decoded.
Called(op, ret, empty, decoded) ==
  hist' = Append(hist, [op |-> op, ret |-> ret, empty |-> empty,
                        decoded |-> decoded])
ColorReady ==
  /\ ce # NoEncoding
  /\ Len(hist) < MaxColorCalls
  /\ hist # <<>> => hist[Len(hist)].ret # "abort"

InitColor ==
  /\ ToolOff
  /\ EngineOff
  /\ PoolOff
  /\ QuantOff
  /\ ExrOff
  /\ ce = NewColorEncoding
  /\ hist = <<>>

CallSetColorSpace ==
  /\ ColorReady
  /\ \E cs \in ColorSpaces : ce' = SetColorSpace(ce, cs)
  /\ Called("SetColorSpace", "void", FALSE, FALSE)
  /\ UNCHANGED <<toolVars, engineVars, poolVars, quantVars, exrVars>>

CallSetSRGB ==
  /\ ColorReady
  /\ \E cs \in ColorSpaces, outcome \in CreateOutcomes :
       LET r == SetSRGB(ce, cs, "kRelative", outcome)
       IN  /\ cs \notin {"kGray", "kRGB"} => outcome = "kept"
           /\ ce' = r.c
           /\ Called("SetSRGB", r.ret, FALSE, FALSE)
  /\ UNCHANGED <<toolVars, engineVars, poolVars, quantVars, exrVars>>

CallCreateICC ==
  /\ ColorReady
  /\ \E outcome \in CreateOutcomes :
       LET r == CreateICC(ce, outcome)
       IN  /\ ce' = r.c
           /\ Called("CreateICC", r.ret, FALSE, FALSE)
  /\ UNCHANGED <<toolVars, engineVars, poolVars, quantVars, exrVars>>

CallInternalRemoveICC ==
  /\ ColorReady
  /\ ce' = InternalRemoveICC(ce)
  /\ Called("InternalRemoveICC", "void", FALSE, FALSE)
  /\ UNCHANGED <<toolVars, engineVars, poolVars, quantVars, exrVars>>

CallSetICC ==
  /\ ColorReady
  /\ \E icc \in ICCInputs, decoded \in BOOLEAN, cs \in DecodedSpaces :
       LET r == SetICC(ce, icc, decoded, cs)
       IN  /\ (icc = <<>> \/ ~decoded) => cs = "kRGB"
           /\ icc = <<>> => ~decoded
           /\ ce' = r.c
           /\ Called("SetICC", r.ret, icc = <<>>, decoded)
  /\ UNCHANGED <<toolVars, engineVars, poolVars, quantVars, exrVars>>

CallDecideIfWantICC ==
  /\ ColorReady
  /\ \E reconstructible \in BOOLEAN :
       ce' = DecideIfWantICC(ce, reconstructible)
  /\ Called("DecideIfWantICC", "void", FALSE, FALSE)
  /\ UNCHANGED <<toolVars, engineVars, poolVars, quantVars, exrVars>>

NextColor ==
  \/ CallSetColorSpace
  \/ CallSetSRGB
  \/ CallCreateICC
  \/ CallInternalRemoveICC
  \/ CallSetICC
  \/ CallDecideIfWantICC

SpecColor == InitColor /\ [][NextColor]_vars

\* -------------------------------------------------------------- Quantizer
kDefaultQuant == 64
\* kGlobalScaleDenom = 1 << 16 and kGlobalScaleNumerator = 4096.
kGlobalScaleDenom == 65536
kGlobalScaleNumerator == 4096
\* kQuantFieldTarget = 3.80987740592518214386f, to five digits, as the
\* fraction kQuantFieldTargetNum / kQuantFieldTargetDen.
kQuantFieldTargetNum == 38099
kQuantFieldTargetDen == 10000
\* 1 << 15 and 1 << 16, the caps of ComputeGlobalScaleAndQuant.
MaxGlobalScale == 32768
MaxQuantDc == 65536
kQuantMax == 256

\* A float argument is the integer n that stands for n / kGlobalScaleDenom,
\* or Huge, which stands for any float beyond the range of int (1e30).
Huge == 2147483647
\* What static_cast<int> of a float beyond the range of int yields is not
\* defined; builds produce INT_MIN (x86) or the saturated INT_MAX (ARM).
OutOfRangeCasts == {-2147483647 - 1, 2147483647}
\* The outcomes of the cast of an expression in the float argument n.
CastsOf(n) == IF n = Huge THEN OutOfRangeCasts ELSE {0}
\* static_cast<int>(num / den) of a float in range: truncation toward zero.
StaticCastInt(num, den) == SDiv(num, den)
\* uint32_t(v) of an int: a negative v wraps to v + 2^32, which is at
\* least 2^31 and is represented by 2^31 - 1.
ToUint32(v) == IF v < 0 THEN 2147483647 ELSE v

QuantDcInputs == {-65536, 0, 6, 15, 16, 65536, 262144, Huge}
QuantMedianInputs == {0, 16, 65536, 131072, Huge}
QuantAbsdInputs == {0, 65536}

\* RecomputeFromGlobalScale(): inv_global_scale_ = kGlobalScaleDenom /
\* global_scale_ and inv_quant_dc_ = inv_global_scale_ / quant_dc_, kept as
\* the terms of the fractions.
RecomputeFromGlobalScale(q) ==
  [q EXCEPT !.inv_global_scale_ = <<kGlobalScaleDenom, q.global_scale_>>,
            !.inv_quant_dc_ = <<kGlobalScaleDenom, q.global_scale_, q.quant_dc_>>]

\* Quantizer(dequant, quant_dc, global_scale)
NewQuantizer(quant_dc, global_scale) ==
  RecomputeFromGlobalScale(
    [global_scale_ |-> global_scale, quant_dc_ |-> quant_dc,
     inv_global_scale_ |-> <<>>, inv_quant_dc_ |-> <<>>])
\* Quantizer(dequant)
DefaultQuantizer == NewQuantizer(kDefaultQuant, kGlobalScaleDenom \div kDefaultQuant)
Constructed == {DefaultQuantizer, NewQuantizer(1, 1),
                NewQuantizer(MaxQuantDc, MaxGlobalScale)}

\* static_cast<int>(value * inv_global_scale_ + 0.5f), value = n /
\* kGlobalScaleDenom: (2 n + global_scale_) / (2 global_scale_), capped at
\* cap before the cast.
ScaledRound(q, n, cap) ==
  IF n = Huge THEN cap
  ELSE LET v == StaticCastInt(2 * n + q.global_scale_, 2 * q.global_scale_)
       IN  IF v >= cap THEN cap ELSE v

\* ComputeGlobalScaleAndQuant without the step that makes new_global_scale
\* positive.
ComputeGlobalScaleAndQuant_NoFloor(q, quant_dc, quant_median, quant_median_absd, ub1, ub2) ==
  LET scale0 == IF quant_median = Huge THEN ub1
                ELSE StaticCastInt((quant_median - quant_median_absd) * kQuantFieldTargetDen,
                                   kQuantFieldTargetNum)
      scaled_quant_dc == IF quant_dc = Huge THEN ub2
                         ELSE StaticCastInt(quant_dc * kGlobalScaleNumerator,
                                            kGlobalScaleDenom)
      scale1 == IF scale0 > scaled_quant_dc THEN scaled_quant_dc ELSE scale0
      scale3 == IF scale1 > MaxGlobalScale THEN MaxGlobalScale ELSE scale1
      q1 == RecomputeFromGlobalScale([q EXCEPT !.global_scale_ = scale3])
      new_quant_dc == IF scale3 <= 0 THEN 0 ELSE ScaledRound(q1, quant_dc, MaxQuantDc)
  IN  RecomputeFromGlobalScale([q1 EXCEPT !.quant_dc_ = new_quant_dc])

\* ComputeGlobalScaleAndQuant(quant_dc, quant_median, quant_median_absd);
\* ub1 and ub2 are what the two casts yield when their float is out of
\* range.
ComputeGlobalScaleAndQuant(q, quant_dc, quant_median, quant_median_absd, ub1, ub2) ==
  LET scale0 == IF quant_median = Huge THEN ub1
                ELSE StaticCastInt((quant_median - quant_median_absd) * kQuantFieldTargetDen,
                                   kQuantFieldTargetNum)
      scaled_quant_dc == IF quant_dc = Huge THEN ub2
                         ELSE StaticCastInt(quant_dc * kGlobalScaleNumerator,
                                            kGlobalScaleDenom)
      scale1 == IF scale0 > scaled_quant_dc THEN scaled_quant_dc ELSE scale0
      scale2 == IF scale1 <= 0 THEN 1 ELSE scale1
      scale3 == IF scale2 > MaxGlobalScale THEN MaxGlobalScale ELSE scale2
      q1 == RecomputeFromGlobalScale([q EXCEPT !.global_scale_ = scale3])
      new_quant_dc == ScaledRound(q1, quant_dc, MaxQuantDc)
  IN  RecomputeFromGlobalScale([q1 EXCEPT !.quant_dc_ = new_quant_dc])

\* ClampVal(static_cast<int>(quant_ac * inv_global_scale_ + 0.5f)): the
\* value that fills the raw quant field, kept within 1..kQuantMax.
ClampVal(v) == IF v < 1 THEN 1 ELSE IF v > kQuantMax THEN kQuantMax ELSE v

\* QuantizerParams::VisitFields: the four encodings of each U32 field, as
\* the number of payload bits and the offset added to the payload
\* (Bits(n) has offset 0, Val(v) has no payload).
GlobalScaleEncodings ==
  << [bits |-> 11, offset |-> 0], [bits |-> 11, offset |-> 2048],
     [bits |-> 12, offset |-> 4096], [bits |-> 15, offset |-> 8192] >>
QuantDcEncodings ==
  << [bits |-> 0, offset |-> 15], [bits |-> 5, offset |-> 0],
     [bits |-> 8, offset |-> 0], [bits |-> 16, offset |-> 0] >>

RECURSIVE Pow2(_)
Pow2(n) == IF n = 0 THEN 1 ELSE 2 * Pow2(n - 1)
Fits(e, v) == v >= e.offset /\ v - e.offset < Pow2(e.bits)
Selectors(encodings, v) == {k \in 1..4 : Fits(encodings[k], v)}
\* The selector that needs the fewest bits, the first of them on a tie.
ChooseSelector(encodings, v) ==
  CHOOSE k \in Selectors(encodings, v) :
    \A l \in Selectors(encodings, v) :
      \/ encodings[k].bits < encodings[l].bits
      \/ encodings[k].bits = encodings[l].bits /\ k <= l
\* n bits of v, least significant first.
ToBits(v, n) == [k \in 1..n |-> (v \div Pow2(k - 1)) % 2]
RECURSIVE FromBits(_, _, _)
FromBits(data, pos, n) ==
  IF n = 0 THEN 0 ELSE data[pos] + 2 * FromBits(data, pos + 1, n - 1)

\* One U32 field: a two-bit selector, then the payload.
U32Write(encodings, v) ==
  LET k == ChooseSelector(encodings, v)
  IN  ToBits(k - 1, 2) \o ToBits(v - encodings[k].offset, encodings[k].bits)
U32Read(encodings, data, pos) ==
  IF pos + 1 > Len(data) THEN [ok |-> FALSE, value |-> 0, pos |-> pos]
  ELSE LET e == encodings[FromBits(data, pos, 2) + 1]
       IN  IF pos + 1 + e.bits > Len(data)
           THEN [ok |-> FALSE, value |-> 0, pos |-> pos]
           ELSE [ok |-> TRUE, value |-> e.offset + FromBits(data, pos + 2, e.bits),
                 pos |-> pos + 2 + e.bits]

\* Bundle::CanEncode(params, &extension_bits, &total_bits)
CanEncode(q) ==
  /\ Selectors(GlobalScaleEncodings, ToUint32(q.global_scale_ - 1)) # {}
  /\ Selectors(QuantDcEncodings, ToUint32(q.quant_dc_ - 1)) # {}

\* Quantizer::Encode: the parameters are written when they can be encoded.
Encode(q) ==
  IF CanEncode(q)
  THEN [ret |-> "true",
        data |-> U32Write(GlobalScaleEncodings, ToUint32(q.global_scale_ - 1))
                 \o U32Write(QuantDcEncodings, ToUint32(q.quant_dc_ - 1))]
  ELSE [ret |-> "false", data |-> <<>>]

\* Decode that stores what was read before it looks at the status.
Decode_StoresFirst(q, data) ==
  LET r1 == U32Read(GlobalScaleEncodings, data, 1)
      r2 == U32Read(QuantDcEncodings, data, r1.pos)
      read == RecomputeFromGlobalScale(
                [q EXCEPT !.global_scale_ = r1.value + 1,
                          !.quant_dc_ = r2.value + 1])
  IN  [q |-> read, ret |-> IF r1.ok /\ r2.ok THEN "true" ELSE "false"]

\* Quantizer::Decode: Bundle::Read fails when the reader runs out of bits.
Decode(q, data) ==
  LET r1 == U32Read(GlobalScaleEncodings, data, 1)
      r2 == U32Read(QuantDcEncodings, data, r1.pos)
  IN  IF ~(r1.ok /\ r2.ok) THEN [q |-> q, ret |-> "false"]
      ELSE [q |-> RecomputeFromGlobalScale(
                    [q EXCEPT !.global_scale_ = r1.value + 1,
                              !.quant_dc_ = r2.value + 1]),
            ret |-> "true"]

\* What a reader can hold: the bits Encode wrote, or a part of them.
Prefixes(data) == {SubSeq(data, 1, n) : n \in 0..Len(data)}

InitQuant ==
  /\ ToolOff
  /\ EngineOff
  /\ PoolOff
  /\ ColorOff
  /\ ExrOff
  /\ qz \in Constructed
  /\ qlast = [NoQuantCall EXCEPT !.op = "Quantizer", !.ret = "void"]
  /\ bits = NoBits

\* SetQuant(quant_dc, quant_ac, raw_quant_field)
CallSetQuant ==
  /\ qz # NoQuantizer
  /\ \E quant_dc \in QuantDcInputs, quant_ac \in QuantMedianInputs :
     \E ub1 \in CastsOf(quant_ac), ub2 \in CastsOf(quant_dc) :
       LET q1 == ComputeGlobalScaleAndQuant(qz, quant_dc, quant_ac, 0, ub1, ub2)
       IN  /\ qz' = q1
           /\ qlast' = [NoQuantCall EXCEPT
                          !.op = "SetQuant", !.ret = "void",
                          !.quant_dc = quant_dc,
                          !.raw = ClampVal(ScaledRound(q1, quant_ac, Huge))]
  /\ UNCHANGED bits
  /\ UNCHANGED <<toolVars, engineVars, poolVars, colorVars, exrVars>>

\* SetQuantField(quant_dc, qf, raw_quant_field) for a field qf with the
\* given median and median absolute deviation; the raw value is that of a
\* cell holding the median.
CallSetQuantField ==
  /\ qz # NoQuantizer
  /\ \E quant_dc \in QuantDcInputs, quant_median \in QuantMedianInputs,
        quant_median_absd \in QuantAbsdInputs :
     \E ub1 \in CastsOf(quant_median), ub2 \in CastsOf(quant_dc) :
       LET q1 == ComputeGlobalScaleAndQuant(qz, quant_dc, quant_median,
                                            quant_median_absd, ub1, ub2)
       IN  /\ qz' = q1
           /\ qlast' = [NoQuantCall EXCEPT
                          !.op = "SetQuantField", !.ret = "void",
                          !.quant_dc = quant_dc,
                          !.raw = ClampVal(ScaledRound(q1, quant_median, Huge))]
  /\ UNCHANGED bits
  /\ UNCHANGED <<toolVars, engineVars, poolVars, colorVars, exrVars>>

CallEncode ==
  /\ qz # NoQuantizer
  /\ LET r == Encode(qz)
     IN  /\ bits' = IF r.ret = "true"
                    THEN [data |-> r.data, global_scale_ |-> qz.global_scale_,
                          quant_dc_ |-> qz.quant_dc_]
                    ELSE bits
         /\ qlast' = [NoQuantCall EXCEPT !.op = "Encode", !.ret = r.ret]
  /\ UNCHANGED qz
  /\ UNCHANGED <<toolVars, engineVars, poolVars, colorVars, exrVars>>

CallDecode ==
  /\ qz # NoQuantizer
  /\ \E data \in Prefixes(bits.data) :
       LET r == Decode(qz, data)
       IN  /\ qz' = r.q
           /\ qlast' = [NoQuantCall EXCEPT !.op = "Decode", !.ret = r.ret,
                                           !.before = qz, !.input = data]
  /\ UNCHANGED bits
  /\ UNCHANGED <<toolVars, engineVars, poolVars, colorVars, exrVars>>

NextQuant ==
  \/ CallSetQuant
  \/ CallSetQuantField
  \/ CallEncode
  \/ CallDecode

SpecQuant == InitQuant /\ [][NextQuant]_vars

\* ------------------------------------------------------- OpenEXR decoding
\* jxl/extras/codec_exr.cc. Sample values are small non-negative integers, so
\* that the float products of the decoder are exact.

kExrBitsPerSample == 16
kExrAlphaBits == 16
\* Defined outside codec_exr.cc; only its being one fixed value matters here.
kDefaultIntensityTarget == 255

MaxAlpha(nbits) == Pow2(nbits) - 1
kMaxAlpha == MaxAlpha(kExrAlphaBits)

Max(a, b) == IF a > b THEN a ELSE b

\* Imath::Box2i with inclusive bounds; points are <<x, y>>.
Box2i ==
  {w \in [min : (0..MaxExrCoord) \X (0..MaxExrCoord),
          max : (0..MaxExrCoord) \X (0..MaxExrCoord)] :
     w.min[1] <= w.max[1] /\ w.min[2] <= w.max[2]}

\* OpenEXR::RgbaChannels as sets of channel flags.
WRITE_RGB == {"R", "G", "B"}
WRITE_A == {"A"}

\* Headers: the whiteLuminance attribute absent or present, chromaticities
\* absent or present.
ExrHeaders ==
  {[hasWhiteLuminance |-> FALSE, whiteLuminance |-> 0, hasChromaticities |-> c] :
     c \in BOOLEAN}
  \cup
  {[hasWhiteLuminance |-> TRUE, whiteLuminance |-> l, hasChromaticities |-> c] :
     l \in {0, 80}, c \in BOOLEAN}

\* The pixel contents of a file: red varies with the column, green with the
\* row, blue and alpha with the content chosen.
ExrPixel(content, x, y) ==
  [r |-> x + content, g |-> y + 1, b |-> 2 * content,
   a |-> (x + y + content) % 2]

\* The files read: RGB, RGBA and luminance only, each with two contents.
ExrFiles ==
  [channels : {WRITE_RGB, WRITE_RGB \cup WRITE_A, {"Y"}},
   header : ExrHeaders, dataWindow : Box2i, displayWindow : Box2i,
   content : {0, 1}]

\* io.target_nits as the caller sets it; 0 means not specified.
TargetNits == {0, 100}

NoImage == <<>>

\* The first return value of GetIntensityTarget is the value, the second the
\* warning it prints.
GetIntensityTarget_HeaderFirst(target_nits, exr_header) ==
  IF exr_header.hasWhiteLuminance
  THEN <<exr_header.whiteLuminance, "none">>
  ELSE IF target_nits # 0
       THEN <<target_nits, "none">>
       ELSE <<kDefaultIntensityTarget, "defaulting">>

GetIntensityTarget(target_nits, exr_header) ==
  IF exr_header.hasWhiteLuminance
  THEN IF target_nits # 0
       THEN <<target_nits, "overriding">>
       ELSE <<exr_header.whiteLuminance, "none">>
  ELSE IF target_nits # 0
       THEN <<target_nits, "none">>
       ELSE <<kDefaultIntensityTarget, "defaulting">>

\* Image3F / ImageU of xsize x ysize filled with one value.
FilledImage(xsize, ysize, value) ==
  Force([q \in (0..(xsize - 1)) \X (0..(ysize - 1)) |-> value])

\* The sizes and loop bounds DecodeImageEXR takes from the two windows: the
\* image size, the row buffer's row size and chunk size, and the inclusive
\* ranges of rows and of columns that lie in both windows.
LoopBounds(input) ==
  [xsize |-> (input.displayWindow.max[1] - input.displayWindow.min[1]) + 1,
   ysize |-> (input.displayWindow.max[2] - input.displayWindow.min[2]) + 1,
   row_size |-> (input.dataWindow.max[1] - input.dataWindow.min[1]) + 1,
   y_chunk_size |-> (input.displayWindow.max[2] - input.displayWindow.min[2]) + 1,
   first_y |-> Max(input.dataWindow.min[2], input.displayWindow.min[2]),
   last_y |-> Min(input.dataWindow.max[2], input.displayWindow.max[2]),
   first_x |-> Max(input.dataWindow.min[1], input.displayWindow.min[1]),
   last_x |-> Min(input.dataWindow.max[1], input.displayWindow.max[1])]

\* input.readPixels(start_y, end_y) through the frame buffer set at lines
\* 180-182: pixel (x, y) of the data window lands at
\* (x - dataWindow.min.x) + (y - start_y) * row_size.
ReadPixels(input, input_rows, start_y, end_y) ==
  Force([k \in DOMAIN input_rows |->
    LET x == input.dataWindow.min[1] + (k % LoopBounds(input).row_size)
        y == start_y + (k \div LoopBounds(input).row_size)
    IN IF y \in start_y..end_y
       THEN ExrPixel(input.content, x, y)
       ELSE input_rows[k]])

\* The body run on the pool for the rows start_y..end_y: the color planes.
ConvertRows(input, input_rows, image, intensity_target, start_y, end_y) ==
  Force([q \in DOMAIN image |->
    LET exr_x == q[1] + input.displayWindow.min[1]
        exr_y == q[2] + input.displayWindow.min[2]
        pixel == input_rows[(exr_y - start_y) * LoopBounds(input).row_size
                            + (exr_x - input.dataWindow.min[1])]
    IN IF exr_y \in start_y..end_y /\ exr_x \in LoopBounds(input).first_x..LoopBounds(input).last_x
       THEN <<intensity_target * pixel.r,
              intensity_target * pixel.g,
              intensity_target * pixel.b>>
       ELSE image[q]])

\* The same rows of the alpha plane.
ConvertAlphaRows(input, input_rows, alpha, start_y, end_y) ==
  Force([q \in DOMAIN alpha |->
    LET exr_x == q[1] + input.displayWindow.min[1]
        exr_y == q[2] + input.displayWindow.min[2]
        pixel == input_rows[(exr_y - start_y) * LoopBounds(input).row_size
                            + (exr_x - input.dataWindow.min[1])]
    IN IF exr_y \in start_y..end_y /\ exr_x \in LoopBounds(input).first_x..LoopBounds(input).last_x
       THEN (kMaxAlpha * pixel.a) % Pow2(16)
       ELSE alpha[q]])

\* DecodeImageEXR is entered with a parsed file and the caller's io.
InitExr ==
  /\ ToolOff
  /\ EngineOff
  /\ PoolOff
  /\ ColorOff
  /\ QuantOff
  /\ \E input \in ExrFiles, target_nits \in TargetNits :
       exr = [pc |-> "channels", input |-> input, target_nits |-> target_nits,
              has_alpha |-> FALSE, local_target |-> NoValue,
              warning |-> "none", image |-> NoImage, alpha |-> NoImage,
              input_rows |-> <<>>, start_y |-> 0,
              intensity_target |-> NoValue,
              bits_per_sample |-> 0, floating_point_sample |-> FALSE,
              alpha_bits |-> 0, main |-> NoImage, main_alpha |-> NoImage,
              primaries |-> "none", ret |-> "running"]

\* Lines 142-147.
ExrCheckChannels ==
  /\ exr.pc = "channels"
  /\ exr' = IF ~(WRITE_RGB \subseteq exr.input.channels)
            THEN [exr EXCEPT !.pc = "done", !.ret = "failure"]
            ELSE [exr EXCEPT !.pc = "target",
                             !.has_alpha = WRITE_A \subseteq exr.input.channels]
  /\ UNCHANGED <<toolVars, engineVars, poolVars, colorVars, quantVars>>

\* Lines 149-150.
ExrSetIntensityTarget ==
  /\ exr.pc = "target"
  /\ LET got == GetIntensityTarget(exr.target_nits, exr.input.header)
     IN exr' = [exr EXCEPT !.pc = "allocate", !.local_target = got[1],
                           !.warning = got[2], !.intensity_target = got[1]]
  /\ UNCHANGED <<toolVars, engineVars, poolVars, colorVars, quantVars>>

\* Lines 152-171: the images, the row buffer and the start of the loop.
ExrAllocate ==
  /\ exr.pc = "allocate"
  /\ LET xsize == LoopBounds(exr.input).xsize
         ysize == LoopBounds(exr.input).ysize
         count == LoopBounds(exr.input).row_size
                  * LoopBounds(exr.input).y_chunk_size
         \* An OpenEXR::Rgba that the vector's constructor left as it was.
         uninit == [r |-> -1, g |-> -1, b |-> -1, a |-> -1]
     IN exr' = [exr EXCEPT
          !.pc = "loop",
          !.image = FilledImage(xsize, ysize, <<0, 0, 0>>),
          !.alpha = IF exr.has_alpha
                    THEN FilledImage(xsize, ysize, kMaxAlpha)
                    ELSE NoImage,
          !.input_rows = Force([k \in 0..(count - 1) |-> uninit]),
          !.start_y = LoopBounds(exr.input).first_y]
  /\ UNCHANGED <<toolVars, engineVars, poolVars, colorVars, quantVars>>

\* Lines 171-214: one pass of the loop over the chunks of rows.
ExrReadChunk ==
  /\ exr.pc = "loop"
  /\ exr.start_y <= LoopBounds(exr.input).last_y
  /\ LET end_y == Min(exr.start_y + LoopBounds(exr.input).y_chunk_size - 1,
                      LoopBounds(exr.input).last_y)
         rows == ReadPixels(exr.input, exr.input_rows, exr.start_y, end_y)
     IN exr' = [exr EXCEPT
          !.input_rows = rows,
          !.image = ConvertRows(exr.input, rows, exr.image, exr.local_target,
                                exr.start_y, end_y),
          !.alpha = IF exr.has_alpha
                    THEN ConvertAlphaRows(exr.input, rows, exr.alpha,
                                          exr.start_y, end_y)
                    ELSE exr.alpha,
          !.start_y = exr.start_y + LoopBounds(exr.input).y_chunk_size]
  /\ UNCHANGED <<toolVars, engineVars, poolVars, colorVars, quantVars>>

\* Lines 216-245. SetPrimaries, SetWhitePoint and CreateICC are declared in
\* color_encoding_internal.h; each may fail, which ends the decoding before
\* the image is handed to io.
ExrFinish ==
  /\ exr.pc = "loop"
  /\ exr.start_y > LoopBounds(exr.input).last_y
  /\ \E ok \in BOOLEAN :
       exr' = IF ~ok
              THEN [exr EXCEPT !.pc = "done", !.ret = "failure"]
              ELSE [exr EXCEPT
                     !.pc = "done",
                     !.ret = "true",
                     !.primaries = IF exr.input.header.hasChromaticities
                                   THEN "header" ELSE "sRGB",
                     !.bits_per_sample = kExrBitsPerSample,
                     !.floating_point_sample = TRUE,
                     !.main = exr.image,
                     !.alpha_bits = IF exr.has_alpha THEN kExrAlphaBits ELSE 0,
                     !.main_alpha = IF exr.has_alpha THEN exr.alpha ELSE NoImage]
  /\ UNCHANGED <<toolVars, engineVars, poolVars, colorVars, quantVars>>

NextExr ==
  \/ ExrCheckChannels
  \/ ExrSetIntensityTarget
  \/ ExrAllocate
  \/ ExrReadChunk
  \/ ExrFinish

SpecExr == InitExr /\ [][NextExr]_vars

\* ------------------------------------------------------------------ claims
Exited == status # "running"
EndedInFailure == status \in {"exit1", "abort"}
Printed(line) == \E k \in 1..Len(out) : out[k] = line
Diagnosed(what) == \E k \in 1..Len(err) : err[k][1] = what

\* C1: whenever a step of the tool fails (usage, first read, second read,
\* width, height, heatmap write) the exit code is 1 and a diagnostic is on
\* standard error; the exit code is 0 only when the score and the p-norm
\* were printed.
C1_ExitCodes ==
  Exited =>
    /\ failure # "none" => (status = "exit1" /\ err # <<>>)
    /\ status = "exit0" => (Printed("distance") /\ Printed("pnorm"))

\* C2: when the two decoded images differ in width or height the tool
\* reports the mismatch and ButteraugliDistance, the p-norm and
\* CreateHeatMapImage are never invoked.
C2_MismatchNoComputation ==
  (io1.ok /\ io2.ok /\ ~SameDims(io1, io2)) =>
    /\ calls = <<>>
    /\ Exited => /\ status = "exit1"
                 /\ Diagnosed("Width mismatch") \/ Diagnosed("Height mismatch")
                 /\ out = <<>> /\ files = {}

\* A run that read two images of equal width and different height and has
\* ended.
C2_Witness ==
  /\ Exited /\ io1.ok /\ io2.ok
  /\ io1.xs = io2.xs /\ io1.ys # io2.ys
  /\ failure = "height"

\* C3: a run that ends in a failure has written nothing to standard output
\* and no heatmap file.
C3_NoPartialOutput ==
  EndedInFailure => (out = <<>> /\ files = {})

\* C10: for two input paths followed by option/value pairs, each option at
\* most once, the heatmap path is the argument after --distmap and the hint
\* the argument after --colorspace (empty when the option is absent).
OptionAt(k) == k >= 3 /\ k < Len(args) /\ (k - 3) % 2 = 0
WellFormedArgs ==
  /\ Len(args) >= 2 /\ Len(args) % 2 = 0
  /\ \A k \in 1..Len(args) : OptionAt(k) => args[k] \in {FlagDistmap, FlagColorspace}
  /\ \A k, l \in 1..Len(args) : (OptionAt(k) /\ OptionAt(l) /\ k # l) => args[k] # args[l]
ValueOf(flag) ==
  IF \E k \in 1..Len(args) : OptionAt(k) /\ args[k] = flag
  THEN args[(CHOOSE k \in 1..Len(args) : OptionAt(k) /\ args[k] = flag) + 1]
  ELSE ""
C10_OptionsParsed ==
  (WellFormedArgs /\ pc \notin {"main", "options"}) =>
    /\ distmap = ValueOf(FlagDistmap)
    /\ colorspace = ValueOf(FlagColorspace)

MismatchedCall == call.entry # "none" /\ ~SameSize(call.rgb1, rgb0)

\* C4: comparing an image with itself, through ButteraugliInterface or
\* ButteraugliComparator::Diffmap, yields a difference map of zeros and a
\* score of 0.
C4_Identity ==
  (call.entry \in {"ButteraugliInterface", "Diffmap"} /\ call.rgb1 = rgb0) =>
    /\ call.ret \in {"true", "returned"}
    /\ DOMAIN call.diffmap = Pixels(rgb0)
    /\ \A p \in Pixels(rgb0) : call.diffmap[p] = 0
    /\ ButteraugliScoreFromDiffmap(call.diffmap) = 0
    /\ call.entry = "ButteraugliInterface" => call.diffvalue = 0

\* An image of several pixels that is not uniform, compared with itself.
C4_Witness ==
  /\ call.entry = "ButteraugliInterface" /\ call.rgb1 = rgb0
  /\ rgb0.xs * rgb0.ys >= 4
  /\ \E p, q \in Pixels(rgb0) : rgb0.px[p] # rgb0.px[q]

RunAlone(entry, rgb1) ==
  MethodResult(entry, NewComparator(rgb0, hfa), rgb1,
               SeparateFrequencies(OpsinDynamicsImage(rgb1)))

Dominates(a, b) == \A c \in DOMAIN a : a[c] >= b[c]

\* C7: for two difference maps of the same size with nonnegative cells, if
\* every cell of the first is at least the same cell of the second, the
\* order-3 norm of the first is at least that of the second.
C7_PoolingMonotonic ==
  (pool.scoreA # NoValue /\ pool.scoreB # NoValue /\ Dominates(pool.a, pool.b))
    => pool.scoreA >= pool.scoreB

\* Both maps pooled, the first larger in one cell, equal and nonzero in
\* another, and zero in the second map where the first is not.
C7_Witness ==
  /\ pool.scoreA # NoValue /\ pool.scoreB # NoValue
  /\ Dominates(pool.a, pool.b)
  /\ \E c \in DOMAIN pool.a : pool.a[c] > pool.b[c] /\ pool.b[c] = 0
  /\ \E c \in DOMAIN pool.a : pool.a[c] = pool.b[c] /\ pool.b[c] > 0
  /\ pool.scoreA > 0

\* The value a command line gives to an option: the arguments after the
\* two input paths are read from left to right, an option name takes the
\* argument after it as its value.
RECURSIVE GivenValue(_, _, _)
GivenValue(flag, k, v) ==
  IF k >= Len(args) THEN v
  ELSE IF args[k] = flag THEN GivenValue(flag, k + 2, args[k + 1])
  ELSE IF args[k] \in {FlagDistmap, FlagColorspace} THEN GivenValue(flag, k + 2, v)
  ELSE GivenValue(flag, k + 1, v)
DistmapGiven == GivenValue(FlagDistmap, 3, "") # ""
ComparisonSucceeded == Printed("distance") /\ Printed("pnorm")
RenderedAsSpecified ==
  /\ heatmap.distmap = distmapImg
  /\ distmapImg.call >= 1 /\ calls[distmapImg.call] = "ButteraugliDistance"
  /\ heatmap.good_threshold = ButteraugliFuzzyInverse(15)
  /\ heatmap.bad_threshold = ButteraugliFuzzyInverse(5)
  /\ heatmap.after = <<"distance", "pnorm">>

\* C11: when the tool has ended, a heatmap file has been written if and
\* only if --distmap was given with a path and the comparison succeeded; the
\* heatmap was then rendered from the difference map of the call that
\* produced the printed score, with the thresholds
\* ButteraugliFuzzyInverse(1.5) and ButteraugliFuzzyInverse(0.5), after the
\* score and the p-norm were printed.
C11_HeatmapWritten ==
  Exited =>
    /\ (files # {}) <=> (DistmapGiven /\ ComparisonSucceeded)
    /\ files # {} => RenderedAsSpecified

\* What remains of C11 in the code: a heatmap is rendered exactly when the
\* option loop left a path in distmap and the comparison succeeded, always
\* as specified, and the file is written exactly when WritePNG succeeds.
C11_RenderedWhenParsed ==
  Exited =>
    /\ (heatmap # NoHeatmap) <=> (distmap # "" /\ ComparisonSucceeded)
    /\ heatmap # NoHeatmap => RenderedAsSpecified
    /\ files = (IF heatmap # NoHeatmap /\ status = "exit0" THEN {distmap} ELSE {})

\* The MaskImage objects a finished call of Mask has filled.
MaskCalls == {t \in Threads : th[t].pc = "done" /\ th[t].entry = "Mask"}
MaskImagesOf(t) == {th[t].result[out_] : out_ \in DOMAIN th[t].result}
HasSourceSize(m) ==
  DOMAIN m.mask_x = Pixels(rgb0) /\ DOMAIN m.mask_yb = Pixels(rgb0)

CallsOf(ops) == {k \in 1..Len(hist) : hist[k].op \in ops}
LastCallOf(ops) == CHOOSE k \in CallsOf(ops) : \A l \in CallsOf(ops) : l <= k
Returned == hist = <<>> \/ hist[Len(hist)].ret # "abort"
OnlyCalls(ops) == hist # <<>> /\ Returned /\ CallsOf(ops) = 1..Len(hist)

\* C14: in every state reached through SetColorSpace and SetSRGB,
\* tf.nonserialized_color_space equals color_space_.
C14_ColorSpaceInSync ==
  OnlyCalls({"SetColorSpace", "SetSRGB"}) =>
    ce.tf.nonserialized_color_space = GetColorSpace(ce)

ICCOps == {"SetICC", "SetSRGB", "CreateICC", "InternalRemoveICC"}
BetweenRemoveAndCreate ==
  /\ CallsOf({"InternalRemoveICC"}) # {}
  /\ \A k \in CallsOf({"CreateICC"}) : k < LastCallOf({"InternalRemoveICC"})
WantedNotSet == WantICC(ce) /\ CallsOf({"SetICC"}) = {}
AfterFailedCall ==
  /\ CallsOf({"SetSRGB", "SetICC", "CreateICC"}) # {}
  /\ hist[LastCallOf({"SetSRGB", "SetICC", "CreateICC"})].ret = "false"

C16_WantICCAfterSetICC ==
  /\ \A k \in CallsOf({"SetICC"}) :
       hist[k].ret = "true" <=> (~hist[k].empty /\ hist[k].decoded)
  /\ \A k \in CallsOf({"SetICC"}) :
       (hist[k].ret = "true" /\ \A l \in CallsOf({"DecideIfWantICC"}) : l < k)
         => WantICC(ce)

\* SetICC succeeded, then SetSRGB replaced the profile and a later SetICC
\* failed to decode its profile.
C16_Witness ==
  /\ Len(hist) = 3 /\ Returned
  /\ hist[1].op = "SetICC" /\ hist[1].ret = "true"
  /\ hist[2].op = "SetSRGB" /\ hist[2].ret = "true"
  /\ hist[3].op = "SetICC" /\ hist[3].ret = "false" /\ ~hist[3].empty
  /\ ICC(ce) = <<>>

AfterCompute == qlast.op \in {"SetQuant", "SetQuantField"}
\* static_cast<int>(quant_dc * kGlobalScaleNumerator) of the last call, for
\* a quant_dc whose product is in the range of int.
TruncatedProduct ==
  StaticCastInt(qlast.quant_dc * kGlobalScaleNumerator, kGlobalScaleDenom)

\* C17: after ComputeGlobalScaleAndQuant, global_scale_ is positive and at
\* most 1 << 15, and it is at most quant_dc * kGlobalScaleNumerator whenever
\* that product truncates to at least 1.
C17_GlobalScaleRange ==
  AfterCompute =>
    /\ qz.global_scale_ > 0
    /\ qz.global_scale_ <= MaxGlobalScale
    /\ (qlast.quant_dc # Huge /\ TruncatedProduct >= 1)
         => qz.global_scale_ <= TruncatedProduct

\* SetQuant with quant_dc = 1 / kGlobalScaleNumerator, whose product
\* truncates to exactly 1, and a larger quant_ac: the scale is cut to 1.
C17_Witness ==
  /\ qlast.op = "SetQuant" /\ qlast.quant_dc = 16
  /\ qz.global_scale_ = 1 /\ qz.quant_dc_ = 16

\* C18: after ComputeGlobalScaleAndQuant, for every quant_dc, quant_median
\* and quant_median_absd, quant_dc_ is at least kGlobalScaleDenom /
\* kGlobalScaleNumerator and at most 1 << 16.
C18_QuantDcRange ==
  AfterCompute =>
    /\ qz.quant_dc_ >= kGlobalScaleDenom \div kGlobalScaleNumerator
    /\ qz.quant_dc_ <= MaxQuantDc

\* The number of bits Encode writes for a quantizer it can encode.
TotalBits(q) == Len(Encode(q).data)
DecodedWhatWasEncoded ==
  qlast.op = "Decode" /\ bits.data # <<>> /\ qlast.input = bits.data

\* C19: in every reachable state of a Quantizer, global_scale_ - 1 and
\* quant_dc_ - 1 are nonnegative and fit their field encodings (at most
\* 40959 and 65535), the parameters take at least 4 bits, and Decode of the
\* bits written by Encode restores global_scale_ and quant_dc_.
C19_ParamsEncodable ==
  /\ qz.global_scale_ - 1 >= 0 /\ qz.global_scale_ - 1 <= 40959
  /\ qz.quant_dc_ - 1 >= 0 /\ qz.quant_dc_ - 1 <= 65535
  /\ CanEncode(qz) /\ TotalBits(qz) >= 4
  /\ DecodedWhatWasEncoded =>
       /\ qlast.ret = "true"
       /\ qz.global_scale_ = bits.global_scale_
       /\ qz.quant_dc_ = bits.quant_dc_

\* C20: when Decode fails to read the parameters it returns the error and
\* the quantizer is what it was before the call.
C20_FailedDecodeKeepsState ==
  (qlast.op = "Decode" /\ Len(qlast.input) < Len(bits.data)) =>
    /\ qlast.ret = "false"
    /\ qz = qlast.before

\* Decode failed on a reader that held global_scale_minus_1 but not all of
\* quant_dc_minus_1, of a quantizer with another global_scale_.
C20_Witness ==
  /\ qlast.op = "Decode" /\ qlast.ret = "false"
  /\ U32Read(GlobalScaleEncodings, qlast.input, 1).ok
  /\ Len(qlast.input) < Len(bits.data)
  /\ bits.global_scale_ # qz.global_scale_

\* The value the three-way rule gives for the run: the caller's target_nits
\* when it is nonzero, else the header's whiteLuminance when it has one, else
\* the default.
RuleTarget ==
  IF exr.target_nits # 0
  THEN exr.target_nits
  ELSE IF exr.input.header.hasWhiteLuminance
       THEN exr.input.header.whiteLuminance
       ELSE kDefaultIntensityTarget

\* The run is past line 150, where the intensity target is stored.
TargetStored ==
  /\ exr.pc \in {"allocate", "loop", "done"}
  /\ WRITE_RGB \subseteq exr.input.channels

\* The run is past the loop over the rows.
RowsConverted ==
  /\ exr.pc \in {"loop", "done"}
  /\ WRITE_RGB \subseteq exr.input.channels
  /\ exr.start_y > LoopBounds(exr.input).last_y

\* The points of the image whose sample comes from the file: those of the
\* display window that lie in the data window as well.
DecodedPoints ==
  {q \in DOMAIN exr.image :
     /\ q[1] + exr.input.displayWindow.min[1] \in
          exr.input.dataWindow.min[1]..exr.input.dataWindow.max[1]
     /\ q[2] + exr.input.displayWindow.min[2] \in
          exr.input.dataWindow.min[2]..exr.input.dataWindow.max[2]}

\* The three color samples of the file at a point of the image, each times
\* the value of the rule.
ScaledSample(q) ==
  LET pixel == ExrPixel(exr.input.content,
                        q[1] + exr.input.displayWindow.min[1],
                        q[2] + exr.input.displayWindow.min[2])
  IN <<RuleTarget * pixel.r, RuleTarget * pixel.g, RuleTarget * pixel.b>>

\* C21: GetIntensityTarget returns io.target_nits when it is nonzero (also
\* when the header has a whiteLuminance), else the header's whiteLuminance
\* when it has one, else kDefaultIntensityTarget; DecodeImageEXR stores exactly
\* this value as the intensity target of the image, and every color sample it
\* decodes is the sample of the file times this value, in the image it hands
\* to io on success as well.
C21_IntensityTargetRule ==
  /\ TargetStored => exr.intensity_target = RuleTarget
  /\ RowsConverted =>
       \A q \in DecodedPoints : exr.image[q] = ScaledSample(q)
  /\ exr.ret = "true" =>
       /\ exr.intensity_target = RuleTarget
       /\ \A q \in DecodedPoints : exr.main[q] = ScaledSample(q)

\* A file with a whiteLuminance decoded for a caller who set target_nits: the
\* decoding succeeded, the caller's value was stored and a nonzero sample of
\* the file was scaled by it.
C21_Witness ==
  /\ exr.pc = "done"
  /\ exr.ret = "true"
  /\ exr.input.header.hasWhiteLuminance
  /\ exr.target_nits # 0
  /\ exr.input.header.whiteLuminance # exr.target_nits
  /\ exr.warning = "overriding"
  /\ exr.intensity_target = exr.target_nits
  /\ \E q \in DecodedPoints :
       /\ ScaledSample(q)[1] # 0
       /\ exr.main[q] = ScaledSample(q)

====
